---- MODULE Spec2Model ----
(***************************************************************************)
(* Model of src/app.py, the Streamlit "Farm Information Dashboard".        *)
(*                                                                         *)
(* One run of main() is one render pass.  Strings are sequences of         *)
(* character codes, so that strip(), lower(), unquote(), sorted() and the  *)
(* f-strings that build file names are computed, not assumed.  A pandas    *)
(* cell that may be missing is an option: None (NaN / NaT / Python None)   *)
(* or Some(v).                                                             *)
(***************************************************************************)
EXTENDS Integers, Sequences, FiniteSets, TLC

VARIABLES
    csv,                \* the rows served by data_url (the environment)
    params,             \* st.query_params: farm_name and severity
    session,            \* st.session_state of the two keyed selectboxes
    pc,                 \* position of the script inside main()
    loads,              \* number of times load_data read data_url
    data,               \* the DataFrame 'data' of main()
    farms,              \* main: farms
    matched_farm,       \* main: matched_farm
    severity_levels,    \* main: severity_levels
    selected_farm,      \* main: selected_farm
    selected_severity,  \* main: selected_severity
    farm_data,          \* display_farm_info: farm_data
    pos,                \* display_farm_info: position of iterrows() in farm_data
    img_name,           \* display_farm_info: img_name of the current row
    images_to_download, \* display_farm_info: images_to_download
    http,               \* every requests.get of this pass, in order, with its result
    zip,                \* content of the archive offered by the sidebar button
    out                 \* what the pass wrote to the page (st.* calls), in order

vars == <<csv, params, session, pc, loads, data, farms, matched_farm,
          severity_levels, selected_farm, selected_severity, farm_data, pos,
          img_name, images_to_download, http, zip, out>>

----------------------------------------------------------------------------
(* Bounds of the model.                                                    *)

MaxRows == 2

MaxLoads == 2

----------------------------------------------------------------------------
(* Options and strings.                                                    *)

None == <<>>

Some(v) == <<v>>

Get(o) == o[1]

\* pd.isna(x) for a cell, "x is None" for a Python value
isna(o) == o = None

\* Python truthiness of an optional string: None and "" are false
truthy(o) == o # None /\ Get(o) # <<>>

Min(S) == CHOOSE x \in S : \A y \in S : x <= y

\* str.lower() on ASCII
lower(s) == [i \in 1..Len(s) |-> IF s[i] \in 65..90 THEN s[i] + 32 ELSE s[i]]

\* the ASCII characters str.strip() removes
Whitespace == {9, 10, 11, 12, 13, 32}

RECURSIVE lstrip(_)
lstrip(s) == IF s # <<>> /\ Head(s) \in Whitespace THEN lstrip(Tail(s)) ELSE s

RECURSIVE rstrip(_)
rstrip(s) ==
    IF s # <<>> /\ s[Len(s)] \in Whitespace
    THEN rstrip(SubSeq(s, 1, Len(s) - 1))
    ELSE s

strip(s) == rstrip(lstrip(s))

\* value of a hexadecimal digit, -1 for any other character
HexVal(c) ==
    IF c \in 48..57 THEN c - 48
    ELSE IF c \in 65..70 THEN c - 55
    ELSE IF c \in 97..102 THEN c - 87
    ELSE -1

\* urllib.parse.unquote on ASCII: %XX becomes the character XX, anything
\* else is kept
RECURSIVE unquote(_)
unquote(s) ==
    IF s = <<>> THEN <<>>
    ELSE IF /\ Head(s) = 37
            /\ Len(s) >= 3
            /\ HexVal(s[2]) >= 0
            /\ HexVal(s[3]) >= 0
         THEN <<16 * HexVal(s[2]) + HexVal(s[3])>> \o unquote(SubSeq(s, 4, Len(s)))
         ELSE <<Head(s)>> \o unquote(Tail(s))

\* a < b for Python strings: code point order, a proper prefix is smaller
RECURSIVE StrLess(_, _)
StrLess(a, b) ==
    IF b = <<>> THEN FALSE
    ELSE IF a = <<>> THEN TRUE
    ELSE IF Head(a) # Head(b) THEN Head(a) < Head(b)
    ELSE StrLess(Tail(a), Tail(b))

\* sorted(S) for a set of strings
RECURSIVE sorted(_)
sorted(S) ==
    IF S = {} THEN <<>>
    ELSE LET m == CHOOSE x \in S : \A y \in S \ {x} : StrLess(x, y)
         IN  <<m>> \o sorted(S \ {m})

\* str(n) for n >= 0
RECURSIVE str(_)
str(n) == IF n < 10 THEN <<48 + n>> ELSE str(n \div 10) \o <<48 + (n % 10)>>

\* n in decimal, zero-padded to w digits (%Y, %m, %d)
RECURSIVE zfill(_, _)
zfill(n, w) == IF w = 0 THEN <<>> ELSE zfill(n \div 10, w - 1) \o <<48 + (n % 10)>>

\* Timestamp.strftime('%Y-%m-%d')
strftime(d) == zfill(d.y, 4) \o <<45>> \o zfill(d.m, 2) \o <<45>> \o zfill(d.d, 2)

\* list.index(x): 0-based position of the first occurrence
index_of(seq, x) == Min({i \in 1..Len(seq) : seq[i] = x}) - 1

----------------------------------------------------------------------------
(* Literals.                                                               *)

SelectAll == <<83, 101, 108, 101, 99, 116, 32, 65, 108, 108>>  \* 'Select All'

UnknownDate == <<117, 110, 107, 110, 111, 119, 110, 95, 100, 97, 116, 101>>  \* 'unknown_date'

DotJpg == <<46, 106, 112, 103>>  \* '.jpg'

Underscore == <<95>>

----------------------------------------------------------------------------
(* Helpers of app.py.                                                      *)

\* The three kinds of cell of the 'json data' column: a missing cell (NaN,
\* a float), text that is not JSON, and JSON text with its parsed value.
JsonNaN == [kind |-> "nan", val |-> <<>>]

JsonBad == [kind |-> "bad", val |-> <<>>]

JsonOk(v) == [kind |-> "ok", val |-> v]

\* json.loads(x): "TypeError" for a non-string (NaN is a float),
\* "JSONDecodeError" for malformed text, "ok" otherwise
json_loads_outcome(x) ==
    CASE x.kind = "nan" -> "TypeError"
      [] x.kind = "bad" -> "JSONDecodeError"
      [] OTHER -> "ok"

\* safe_json_loads: only JSONDecodeError is caught.  The result is
\* [raised, value]: raised is TRUE when an exception leaves the function.
safe_json_loads(json_str) ==
    CASE json_loads_outcome(json_str) = "ok" ->
            [raised |-> FALSE, value |-> Some(json_str.val)]
      [] json_loads_outcome(json_str) = "JSONDecodeError" ->
            [raised |-> FALSE, value |-> None]
      [] OTHER -> [raised |-> TRUE, value |-> None]

\* extract_levels: the value of the first item named level_name
extract_levels(json_data, level_name) ==
    IF isna(json_data) \/ Get(json_data) = <<>> THEN None
    ELSE LET items == Get(json_data)
             hits == {i \in 1..Len(items) : items[i].name = level_name}
         IN  IF hits = {} THEN None ELSE Some(items[Min(hits)].value)

\* filter_farms: sorted(data['farmName'].unique())
filter_farms(d) == sorted({Get(d[i].farmName) : i \in 1..Len(d)})

\* exact_string_match without strip() on the directory entry
RECURSIVE exact_string_match_raw_entry(_, _)
exact_string_match_raw_entry(farm_name_param, fs) ==
    IF fs = <<>> THEN None
    ELSE IF lower(Head(fs)) = lower(strip(farm_name_param))
         THEN Some(Head(fs))
         ELSE exact_string_match_raw_entry(farm_name_param, Tail(fs))

\* exact_string_match: the first farm equal to the parameter after
\* strip().lower() on both, None when there is none
RECURSIVE exact_string_match(_, _)
exact_string_match(farm_name_param, fs) ==
    IF fs = <<>> THEN None
    ELSE IF lower(strip(Head(fs))) = lower(strip(farm_name_param))
         THEN Some(Head(fs))
         ELSE exact_string_match(farm_name_param, Tail(fs))

----------------------------------------------------------------------------
(* Input domains.                                                          *)

Str_A == <<65>>

Str_B == <<66>>

Str_a_sp == <<97, 32>>  \* 'a '

Str_Ab == <<65, 98>>

Str_sp_b == <<32, 98>>  \* ' b'

Str_H == <<72>>

Str_L == <<76>>

Str_url == <<117>>

Str_note == <<110>>

SeverityItem(v) == [name |-> "Severity", value |-> v]

OtherItem == [name |-> "Crop", value |-> <<119>>]

ADate == [y |-> 2024, m |-> 3, d |-> 5]

\* farm_name parameters: '', 'a', ' A', 'b', 'ab', '%61' and 'B%20'
FarmQueries ==
    {<<>>, <<97>>, <<32, 65>>, <<98>>, <<97, 98>>, <<37, 54, 49>>, <<66, 37, 50, 48>>}

\* severity parameters: '', 'H', 'L', 'all' and 'Select All'
SeverityQueries == {<<>>, Str_H, Str_L, <<97, 108, 108>>, SelectAll}

Rows(FarmNames, Urls, Jsons, Acts, Dates) ==
    [farmName : FarmNames, url : Urls, json : Jsons,
     activity_record : Acts, Date : Dates]

----------------------------------------------------------------------------
(* State after the script starts: nothing loaded, nothing written.         *)

InitWith(RowSet, FarmParams, SevParams) ==
    /\ csv \in UNION {[1..n -> RowSet] : n \in 0..MaxRows}
    /\ params \in [farm_name : FarmParams, severity : SevParams]
    /\ session = [farm_selector |-> None, severity_selector |-> None]
    /\ pc = "load"
    /\ loads = 0
    /\ data = <<>>
    /\ farms = <<>>
    /\ matched_farm = None
    /\ severity_levels = <<>>
    /\ selected_farm = None
    /\ selected_severity = None
    /\ farm_data = <<>>
    /\ pos = 0
    /\ img_name = None
    /\ images_to_download = <<>>
    /\ http = <<>>
    /\ zip = None
    /\ out = <<>>

\* st.success / st.warning / st.error / st.write / widgets: one entry of the
\* page, written by main() itself
Emit(kind, text, arg) == <<kind, text, arg, -1>>

\* one entry of the page written while display_farm_info renders the row
\* labelled index
EmitRow(kind, text, arg, index) == <<kind, text, arg, index>>

----------------------------------------------------------------------------
(* main(), lines 125-137: load the CSV; an exception of load_data is       *)
(* reported and ends the pass.  The CSV has the five required columns.     *)

\* load_data: one row of the DataFrame per CSV row, labelled with its
\* 0-based position; 'Date' is a Timestamp, or NaT for a missing or
\* unparseable cell
load_data(rows) ==
    [i \in 1..Len(rows) |->
        [index |-> i - 1,
         farmName |-> rows[i].farmName,
         url |-> rows[i].url,
         json |-> rows[i].json,
         activity_record |-> rows[i].activity_record,
         Date |-> rows[i].Date,
         json_data |-> None,
         Severity |-> None]]

main_load ==
    /\ pc = "load"
    /\ loads' = loads + 1
    /\ \E ok \in BOOLEAN :
          IF ok
          THEN /\ data' = load_data(csv)
               /\ pc' = "clean"
               /\ out' = out
          ELSE /\ data' = <<>>
               /\ pc' = "done"
               /\ out' = Append(out, Emit("error", "Error loading data", <<>>))
    /\ UNCHANGED <<csv, params, session, farms, matched_farm, severity_levels,
                   selected_farm, selected_severity, farm_data, pos, img_name,
                   images_to_download, http, zip>>

----------------------------------------------------------------------------
(* main(), lines 139-142: parse the metadata of every row, drop the rows   *)
(* without a farm name, derive Severity.  An exception that leaves         *)
(* safe_json_loads is not caught by main: the script stops.                *)

\* rows of d whose farmName is present, in order
RECURSIVE dropna_farmName(_)
dropna_farmName(d) ==
    IF d = <<>> THEN <<>>
    ELSE IF isna(Head(d).farmName) THEN dropna_farmName(Tail(d))
    ELSE <<Head(d)>> \o dropna_farmName(Tail(d))

clean(d) ==
    LET parsed == [i \in 1..Len(d) |->
                     [d[i] EXCEPT !.json_data = safe_json_loads(d[i].json).value]]
        kept == dropna_farmName(parsed)
    IN  [i \in 1..Len(kept) |->
           [kept[i] EXCEPT !.Severity = extract_levels(kept[i].json_data, "Severity")]]

main_clean ==
    /\ pc = "clean"
    /\ IF \E i \in 1..Len(data) : safe_json_loads(data[i].json).raised
       THEN /\ pc' = "crashed"
            /\ data' = data
            /\ out' = Append(out, Emit("exception", "TypeError", <<>>))
       ELSE /\ pc' = "select"
            /\ data' = clean(data)
            /\ out' = out
    /\ UNCHANGED <<csv, params, session, loads, farms, matched_farm,
                   severity_levels, selected_farm, selected_severity, farm_data,
                   pos, img_name, images_to_download, http, zip>>

----------------------------------------------------------------------------
(* main(), lines 144-182: the farm directory, the query parameters, the    *)
(* severity list and the two selectboxes.                                  *)

\* default_farm_index that ignores the match
default_farm_index_first(farm_name_param, fs) == 0

\* lines 152-162: the index of the farm selectbox
default_farm_index(farm_name_param, fs) ==
    IF truthy(farm_name_param)
    THEN LET m == exact_string_match(unquote(Get(farm_name_param)), fs)
         IN  IF truthy(m) THEN index_of(fs, Get(m)) ELSE 0
    ELSE 0

\* lines 152-162: the notice written about the farm_name parameter
farm_notice(farm_name_param, fs) ==
    IF truthy(farm_name_param)
    THEN LET q == unquote(Get(farm_name_param))
             m == exact_string_match(q, fs)
         IN  IF truthy(m)
             THEN <<Emit("success", "Showing data for farm", Get(m))>>
             ELSE <<Emit("warning", "Farm not found. Showing default farm.", q)>>
    ELSE <<>>

\* the distinct severities of d in order of first appearance
RECURSIVE appearance_order(_, _)
appearance_order(d, seen) ==
    IF d = <<>> THEN <<>>
    ELSE IF isna(Head(d).Severity) \/ Get(Head(d).Severity) \in seen
         THEN appearance_order(Tail(d), seen)
         ELSE <<Get(Head(d).Severity)>> \o
              appearance_order(Tail(d), seen \cup {Get(Head(d).Severity)})

\* severity_list without sorted()
severity_list_unsorted(d) == <<SelectAll>> \o appearance_order(d, {})

\* line 164: ['Select All'] + sorted(data['Severity'].dropna().unique())
severity_list(d) ==
    <<SelectAll>> \o
    sorted({Get(d[i].Severity) : i \in {j \in 1..Len(d) : ~isna(d[j].Severity)}})

\* lines 165-168: the index of the severity selectbox
default_severity_index(severity_param, levels) ==
    IF truthy(severity_param) /\ \E i \in 1..Len(levels) : levels[i] = Get(severity_param)
    THEN index_of(levels, Get(severity_param))
    ELSE 0

\* st.selectbox(options, index, key): the value kept in the session for the
\* key when the user has set one, else options[index]; None without options
selectbox(options, index, kept) ==
    IF options = <<>> THEN None
    ELSE IF ~isna(kept) THEN kept
    ELSE Some(options[index + 1])

main_select ==
    /\ pc = "select"
    /\ farms' = filter_farms(data)
    /\ matched_farm' =
          IF truthy(params.farm_name)
          THEN exact_string_match(unquote(Get(params.farm_name)), farms')
          ELSE None
    /\ severity_levels' = severity_list(data)
    /\ selected_farm' =
          selectbox(farms', default_farm_index(params.farm_name, farms'),
                    session.farm_selector)
    /\ selected_severity' =
          selectbox(severity_levels',
                    default_severity_index(params.severity, severity_levels'),
                    session.severity_selector)
    /\ out' = out \o farm_notice(params.farm_name, farms')
    /\ pc' = "filter"
    /\ UNCHANGED <<csv, params, session, loads, data, farm_data, pos, img_name,
                   images_to_download, http, zip>>

----------------------------------------------------------------------------
(* The selection phase of main() on its own: load, clean, select.          *)

NextSelect == main_load \/ main_clean \/ main_select

\* Farm names and farm_name parameters vary.
MatchRows ==
    Rows({None, Some(Str_A), Some(Str_B), Some(Str_a_sp), Some(Str_Ab), Some(Str_sp_b)},
         {Some(Str_url)},
         {JsonOk(<<SeverityItem(Str_H)>>)},
         {Some(Str_note)},
         {Some(ADate)})

InitMatch == InitWith(MatchRows, {None} \cup {Some(q) : q \in FarmQueries}, {None})

SpecMatch == InitMatch /\ [][NextSelect]_vars

\* Metadata and severity parameters vary.
SeverityRows ==
    Rows({None, Some(Str_A), Some(Str_B)},
         {Some(Str_url)},
         {JsonBad, JsonOk(<<SeverityItem(Str_H)>>),
          JsonOk(<<OtherItem, SeverityItem(Str_L), SeverityItem(Str_H)>>),
          JsonOk(<<SeverityItem(<<>>)>>)},
         {Some(Str_note)},
         {Some(ADate)})

InitSeverity ==
    InitWith(SeverityRows, {None, Some(<<98>>)},
             {None} \cup {Some(q) : q \in SeverityQueries})

SpecSeverity == InitSeverity /\ [][NextSelect]_vars

----------------------------------------------------------------------------
(* main(), lines 184-192, and display_farm_info, lines 58-60: the slice    *)
(* of the selected farm and severity.                                      *)

RECURSIVE select_rows(_, _, _)
select_rows(d, farm, severity) ==
    IF d = <<>> THEN <<>>
    ELSE IF /\ Head(d).farmName = farm
            /\ severity = Some(SelectAll) \/ Head(d).Severity = severity
         THEN <<Head(d)>> \o select_rows(Tail(d), farm, severity)
         ELSE select_rows(Tail(d), farm, severity)

\* where the loop of display_farm_info goes after the row at position p
after_row(p, n) == IF p + 1 > n THEN "bundle" ELSE "row"

main_filter ==
    /\ pc = "filter"
    /\ IF ~truthy(selected_farm)
       THEN /\ pc' = "done"
            /\ UNCHANGED <<farm_data, pos, out>>
       ELSE LET filtered_data == select_rows(data, selected_farm, selected_severity)
            IN  IF filtered_data = <<>>
                THEN /\ pc' = "done"
                     /\ out' = Append(out, Emit("warning",
                                  "No data available for the selected filters.", <<>>))
                     /\ UNCHANGED <<farm_data, pos>>
                ELSE /\ pc' = "row"
                     /\ farm_data' = filtered_data
                     /\ pos' = 1
                     /\ out' = out
    /\ UNCHANGED <<csv, params, session, loads, data, farms, matched_farm,
                   severity_levels, selected_farm, selected_severity, img_name,
                   images_to_download, http, zip>>

----------------------------------------------------------------------------
(* display_farm_info, lines 61-88: the image column of one row.            *)

\* a requests.get that has been issued and has not returned
Request(index, caller) == [index |-> index, caller |-> caller, result |-> "pending"]

\* the log with the result of the pending request filled in
Respond(log, result) == [log EXCEPT ![Len(log)].result = result]

\* img_name_of with the 0-based index
img_name_zero_based(row) ==
    IF ~isna(row.Date)
    THEN Get(row.farmName) \o Underscore \o strftime(Get(row.Date)) \o Underscore
         \o str(row.index) \o DotJpg
    ELSE Get(row.farmName) \o Underscore \o UnknownDate \o Underscore
         \o str(row.index) \o DotJpg

\* lines 78-80: the file name of the row's image
img_name_of(row) ==
    IF ~isna(row.Date)
    THEN Get(row.farmName) \o Underscore \o strftime(Get(row.Date)) \o Underscore
         \o str(row.index + 1) \o DotJpg
    ELSE Get(row.farmName) \o Underscore \o UnknownDate \o Underscore
         \o str(row.index + 1) \o DotJpg

\* the bytes requests.get returns for the image of a row
ImageBytes(row) == [url |-> Get(row.url), row |-> row.index]

\* download_image reusing the response of line 71
download_image_requests_none(index) == <<>>

\* line 42: the requests download_image issues for one image
download_image_requests(index) == <<Request(index, "download_image")>>

\* the image column without its except clauses
display_catches_none(exc) == FALSE

\* lines 85-88: the exceptions the try block of the image column catches
display_catches(exc) == exc \in {"RequestException", "UnidentifiedImageError", "OSError"}

\* lines 66-71: an absent or non-string URL is reported and the rest of the
\* loop body is skipped (continue); else the image is requested
display_col1 ==
    /\ pc = "row"
    /\ LET row == farm_data[pos]
       IN  IF isna(row.url)
           THEN /\ out' = Append(out, EmitRow("warning", "Invalid image URL for entry",
                                               str(row.index + 1), row.index))
                /\ pos' = pos + 1
                /\ pc' = after_row(pos, Len(farm_data))
                /\ http' = http
           ELSE /\ http' = Append(http, Request(row.index, "display_farm_info"))
                /\ pc' = "get"
                /\ UNCHANGED <<pos, out>>
    /\ UNCHANGED <<csv, params, session, loads, data, farms, matched_farm,
                   severity_levels, selected_farm, selected_severity, farm_data,
                   img_name, images_to_download, zip>>

\* lines 71-81 and 85-86: the response to the request of line 71
display_get_response ==
    /\ pc = "get"
    /\ LET row == farm_data[pos]
       IN  \E result \in {"ok", "RequestException"} :
              IF result = "ok"
              THEN /\ out' = Append(out, EmitRow("image", "Image", str(row.index + 1),
                                                  row.index))
                   /\ img_name' = Some(img_name_of(row))
                   /\ http' = Respond(http, result) \o download_image_requests(row.index)
                   /\ pc' = IF download_image_requests(row.index) = <<>>
                            THEN "col2" ELSE "download"
              ELSE /\ http' = Respond(http, result)
                   /\ img_name' = img_name
                   /\ IF display_catches(result)
                      THEN /\ out' = Append(out, EmitRow("error", "Error loading image",
                                                          str(row.index + 1), row.index))
                           /\ pc' = "col2"
                      ELSE /\ out' = Append(out, Emit("exception", result, <<>>))
                           /\ pc' = "crashed"
    /\ UNCHANGED <<csv, params, session, loads, data, farms, matched_farm,
                   severity_levels, selected_farm, selected_severity, farm_data,
                   pos, images_to_download, zip>>

\* download_image returning the undecoded bytes when decoding fails
download_image_raw_on_error(result, bytes, filename) ==
    CASE result \in {"ok", "UnidentifiedImageError"} ->
            [raised |-> FALSE, img_data |-> Some(bytes), img_filename |-> Some(filename)]
      [] result = "RequestException" ->
            [raised |-> FALSE, img_data |-> None, img_filename |-> None]
      [] OTHER -> [raised |-> TRUE, img_data |-> None, img_filename |-> None]

\* download_image, lines 41-55: <<img_data, img_filename>> for the result
\* of the request and of the decoding; "raised" when the exception is not
\* one of the two it catches
download_image(result, bytes, filename) ==
    CASE result = "ok" -> [raised |-> FALSE, img_data |-> Some(bytes), img_filename |-> Some(filename)]
      [] result \in {"RequestException", "UnidentifiedImageError"} ->
            [raised |-> FALSE, img_data |-> None, img_filename |-> None]
      [] OTHER -> [raised |-> TRUE, img_data |-> None, img_filename |-> None]

\* lines 81-84 and 87-88: download_image returns or raises
download_image_response ==
    /\ pc = "download"
    /\ LET row == farm_data[pos]
       IN  \E result \in {"ok", "RequestException", "UnidentifiedImageError", "OSError"} :
              LET r == download_image(result, ImageBytes(row), Get(img_name))
              IN  /\ http' = Respond(http, result)
                  /\ IF r.raised
                     THEN IF display_catches(result)
                          THEN /\ out' = Append(out,
                                     EmitRow("error", "Unexpected error displaying image",
                                             str(row.index + 1), row.index))
                               /\ pc' = "col2"
                               /\ UNCHANGED images_to_download
                          ELSE /\ out' = Append(out, Emit("exception", result, <<>>))
                               /\ pc' = "crashed"
                               /\ UNCHANGED images_to_download
                     ELSE IF ~isna(r.img_data)
                          THEN /\ out' = Append(out,
                                     EmitRow("download_button", "Download Image",
                                             Get(r.img_filename), row.index))
                               /\ images_to_download' =
                                     Append(images_to_download,
                                            <<Get(r.img_data), Get(r.img_filename)>>)
                               /\ pc' = "col2"
                          ELSE /\ out' = Append(out,
                                     EmitRow("error", "Error downloading or processing image",
                                             <<>>, row.index))
                               /\ pc' = "col2"
                               /\ UNCHANGED images_to_download
    /\ UNCHANGED <<csv, params, session, loads, data, farms, matched_farm,
                   severity_levels, selected_farm, selected_severity, farm_data,
                   pos, img_name, zip>>

----------------------------------------------------------------------------
(* display_farm_info, lines 90-108: the text column of one row.            *)

\* lines 93-103: the metadata panel
metadata_panel(row) ==
    IF row.json.kind = "nan"
    THEN <<EmitRow("warning", "No JSON data available", <<>>, row.index)>>
    ELSE IF json_loads_outcome(row.json) = "JSONDecodeError"
    THEN <<EmitRow("error", "Invalid JSON data", <<>>, row.index)>>
    ELSE [i \in 1..Len(row.json.val) |->
            EmitRow("write", row.json.val[i].name, row.json.val[i].value, row.index)]

\* lines 91-108
text_column(row) ==
    <<EmitRow("write", "Farm Name:", Get(row.farmName), row.index),
      EmitRow("write", "Other Information:", <<>>, row.index)>>
    \o metadata_panel(row)
    \o <<EmitRow("write", "#### Activity", <<>>, row.index),
         IF ~isna(row.activity_record)
         THEN EmitRow("write", "activity_record", Get(row.activity_record), row.index)
         ELSE EmitRow("write", "No activity recorded", <<>>, row.index),
         EmitRow("write", "##### Activity Date", <<>>, row.index),
         IF ~isna(row.Date)
         THEN EmitRow("write", "Date", strftime(Get(row.Date)), row.index)
         ELSE EmitRow("write", "No date recorded", <<>>, row.index)>>

display_col2 ==
    /\ pc = "col2"
    /\ out' = out \o text_column(farm_data[pos])
    /\ pos' = pos + 1
    /\ pc' = after_row(pos, Len(farm_data))
    /\ img_name' = None
    /\ UNCHANGED <<csv, params, session, loads, data, farms, matched_farm,
                   severity_levels, selected_farm, selected_severity, farm_data,
                   images_to_download, http, zip>>

----------------------------------------------------------------------------
(* main(), lines 193-200: the archive of the images that were fetched.     *)

\* create_zip: one entry per image, named img_filename, in order
create_zip(images) == [i \in 1..Len(images) |-> [name |-> images[i][2], content |-> images[i][1]]]

main_bundle ==
    /\ pc = "bundle"
    /\ IF images_to_download # <<>>
       THEN /\ zip' = Some(create_zip(images_to_download))
            /\ out' = Append(out, Emit("sidebar_download_button", "Download All Images", <<>>))
       ELSE UNCHANGED <<zip, out>>
    /\ pc' = "done"
    /\ UNCHANGED <<csv, params, session, loads, data, farms, matched_farm,
                   severity_levels, selected_farm, selected_severity, farm_data,
                   pos, img_name, images_to_download, http>>

----------------------------------------------------------------------------
(* One render pass: main() from its first line to its last.                *)

Next ==
    \/ main_load
    \/ main_clean
    \/ main_select
    \/ main_filter
    \/ display_col1
    \/ display_get_response
    \/ download_image_response
    \/ display_col2
    \/ main_bundle

RenderRows ==
    Rows({None, Some(Str_A), Some(Str_B)},
         {None, Some(Str_url)},
         {JsonBad, JsonOk(<<SeverityItem(Str_H)>>)},
         {Some(Str_note)},
         {None, Some(ADate)})

Init == InitWith(RenderRows, {None}, {None, Some(Str_H)})

Spec == Init /\ [][Next]_vars

----------------------------------------------------------------------------
(* A session: Streamlit runs main() again, from its first line, each time  *)
(* the user changes a selectbox or reloads the page.                       *)

rerun ==
    /\ pc \in {"done", "crashed"}
    /\ loads < MaxLoads
    /\ \E f \in {session.farm_selector} \cup {Some(x) : x \in {farms[i] : i \in 1..Len(farms)}},
          v \in {session.severity_selector}
                \cup {Some(x) : x \in {severity_levels[i] : i \in 1..Len(severity_levels)}} :
          session' = [farm_selector |-> f, severity_selector |-> v]
    /\ pc' = "load"
    /\ data' = <<>>
    /\ farms' = <<>>
    /\ matched_farm' = None
    /\ severity_levels' = <<>>
    /\ selected_farm' = None
    /\ selected_severity' = None
    /\ farm_data' = <<>>
    /\ pos' = 0
    /\ img_name' = None
    /\ images_to_download' = <<>>
    /\ http' = <<>>
    /\ zip' = None
    /\ out' = <<>>
    /\ UNCHANGED <<csv, params, loads>>

NextSession == Next \/ rerun

SessionRows ==
    Rows({Some(Str_A), Some(Str_B)},
         {None, Some(Str_url)},
         {JsonNaN, JsonBad, JsonOk(<<SeverityItem(Str_H)>>)},
         {None, Some(Str_note)},
         {Some(ADate)})

InitSession == InitWith(SessionRows, {None}, {None})

SpecSession == InitSession /\ [][NextSession]_vars


----------------------------------------------------------------------------
(* What the claims are stated with.                                        *)

\* s without its leading and trailing whitespace
Trimmed(s) ==
    LET keep == {i \in 1..Len(s) : s[i] \notin Whitespace}
    IN  IF keep = {} THEN <<>>
        ELSE SubSeq(s, Min(keep), CHOOSE i \in keep : \A j \in keep : j <= i)

\* s with every upper-case ASCII letter replaced by its lower-case letter
Lowercased(s) == [i \in 1..Len(s) |-> IF 65 <= s[i] /\ s[i] <= 90 THEN s[i] + 32 ELSE s[i]]

Normalized(s) == Trimmed(Lowercased(s))

\* the first entry of directory D equal to q after normalization, if any
FirstNormalizedEqual(q, D) ==
    LET hits == {i \in 1..Len(D) : Normalized(D[i]) = Normalized(q)}
    IN  IF hits = {} THEN None ELSE Some(D[Min(hits)])

Members(seq) == {seq[i] : i \in 1..Len(seq)}

\* the query strings the match is tried on: the parameters, decoded or not,
\* and the directory's own entries
TriedQueries == FarmQueries \cup {unquote(q) : q \in FarmQueries} \cup Members(farms)

\* the selection phase of main() has just ended
Selected == pc = "filter"

\* C1: exact_string_match(q, D) is the first entry of D, in its original
\* form, whose trimmed lower-cased form equals that of q, and None when
\* there is none; so it is None or a member of D, a prefix of an entry does
\* not match, and queries that differ in case or surrounding whitespace
\* get the same answer.
C1_ExactMatch ==
    Selected =>
        /\ truthy(params.farm_name) =>
              matched_farm = FirstNormalizedEqual(unquote(Get(params.farm_name)), farms)
        /\ \A q \in TriedQueries :
              LET r == exact_string_match(q, farms)
              IN  /\ r = FirstNormalizedEqual(q, farms)
                  /\ r = None \/ Get(r) \in Members(farms)
                  /\ r # None => Len(Normalized(Get(r))) = Len(Normalized(q))
        /\ \A q1, q2 \in TriedQueries :
              Normalized(q1) = Normalized(q2) =>
                  exact_string_match(q1, farms) = exact_string_match(q2, farms)

\* C1 witness: the parameter matched an entry that differs from it in case
\* or whitespace and is not the first entry of the directory.
C1_Witness ==
    /\ Selected
    /\ matched_farm # None
    /\ Get(matched_farm) # unquote(Get(params.farm_name))
    /\ Get(matched_farm) # farms[1]

\* the notices main() wrote about the farm_name parameter
SuccessNotice(f) == Emit("success", "Showing data for farm", f)

WarningNotice(q) == Emit("warning", "Farm not found. Showing default farm.", q)

\* C2 as claimed: with a non-empty directory the initial selected farm is a
\* member of it: the matched entry, with a confirmation, when the parameter
\* matches; the first entry, with a warning naming the query, when the
\* parameter is present and unmatched; the first entry, with no notice,
\* when the parameter is absent.
C2_AsClaimed ==
    (Selected /\ farms # <<>>) =>
        /\ selected_farm # None /\ Get(selected_farm) \in Members(farms)
        /\ IF params.farm_name = None
           THEN selected_farm = Some(farms[1]) /\ out = <<>>
           ELSE LET q == unquote(Get(params.farm_name))
                    m == FirstNormalizedEqual(q, farms)
                IN  IF m # None
                    THEN selected_farm = m /\ out = <<SuccessNotice(Get(m))>>
                    ELSE selected_farm = Some(farms[1]) /\ out = <<WarningNotice(q)>>

\* C2 amended: the same, with an empty farm_name parameter treated as an
\* absent one: the first entry, with no notice.
C2_InitialFarm ==
    (Selected /\ farms # <<>>) =>
        /\ selected_farm # None /\ Get(selected_farm) \in Members(farms)
        /\ IF params.farm_name = None \/ params.farm_name = Some(<<>>)
           THEN selected_farm = Some(farms[1]) /\ out = <<>>
           ELSE LET q == unquote(Get(params.farm_name))
                    m == FirstNormalizedEqual(q, farms)
                IN  IF m # None
                    THEN selected_farm = m /\ out = <<SuccessNotice(Get(m))>>
                    ELSE selected_farm = Some(farms[1]) /\ out = <<WarningNotice(q)>>

\* C2 witness: a non-empty parameter matched no entry of a directory of two
\* farms or more; the first entry is selected and the warning names the query.
C2_Witness ==
    /\ Selected
    /\ Len(farms) >= 2
    /\ truthy(params.farm_name)
    /\ matched_farm = None
    /\ selected_farm = Some(farms[1])
    /\ out = <<WarningNotice(unquote(Get(params.farm_name)))>>

\* the severity recorded by a CSV row: the value of the first item named
\* Severity of its metadata, when the metadata is valid JSON
RowSeverity(row) ==
    IF row.json.kind # "ok" THEN None
    ELSE LET named == {i \in 1..Len(row.json.val) : row.json.val[i].name = "Severity"}
         IN  IF named = {} THEN None ELSE Some(row.json.val[Min(named)].value)

\* the records of the dataset: the CSV rows that have a farm name
Records == {i \in 1..Len(csv) : csv[i].farmName # None}

ObservedSeverities == {Get(RowSeverity(csv[i])) : i \in {j \in Records : RowSeverity(csv[j]) # None}}

\* seq lists the set S in strictly ascending order
AscendingListOf(seq, S) ==
    /\ Members(seq) = S
    /\ \A i, j \in 1..Len(seq) : i < j => StrLess(seq[i], seq[j])

CandidateListOk ==
    /\ severity_levels # <<>>
    /\ Head(severity_levels) = SelectAll
    /\ AscendingListOf(Tail(severity_levels), ObservedSeverities)

\* C7 as claimed: the severity list is the sentinel followed by the sorted
\* distinct severities of all records; the initial selected severity is the
\* parameter when it is present and in the list, the sentinel otherwise.
C7_AsClaimed ==
    Selected =>
        /\ CandidateListOk
        /\ selected_severity =
              IF params.severity # None /\ Get(params.severity) \in Members(severity_levels)
              THEN params.severity
              ELSE Some(SelectAll)

\* C7 amended: the list as claimed; the initial selected severity is the
\* parameter when it is present, not empty and in the list, the sentinel
\* otherwise.
C7_InitialSeverity ==
    Selected =>
        /\ CandidateListOk
        /\ selected_severity =
              IF /\ params.severity # None
                 /\ Get(params.severity) # <<>>
                 /\ Get(params.severity) \in Members(severity_levels)
              THEN params.severity
              ELSE Some(SelectAll)

\* C7 witness: two severities are listed in ascending order, and the
\* parameter selected one that no row of the selected farm records.
C7_Witness ==
    /\ Selected
    /\ Len(severity_levels) >= 3
    /\ selected_severity = params.severity
    /\ selected_severity # Some(SelectAll)
    /\ \A i \in Records :
          csv[i].farmName = selected_farm => RowSeverity(csv[i]) # selected_severity

----------------------------------------------------------------------------
(* Claims about the render pass.                                           *)

\* the entries of the page written for the row labelled index
RowEntries(index) == {out[k] : k \in {j \in 1..Len(out) : out[j][4] = index}}

Wrote(index, kind, text) == \E e \in RowEntries(index) : e[1] = kind /\ e[2] = text

\* the farm name, the metadata panel or its notice, the activity note or
\* its notice and the activity date or its notice were written for the row
FieldsEmitted(index) ==
    LET r == csv[index + 1]
    IN  /\ \E e \in RowEntries(index) : e[2] = "Farm Name:" /\ e[3] = Get(r.farmName)
        /\ CASE r.json.kind = "nan" -> Wrote(index, "warning", "No JSON data available")
             [] r.json.kind = "bad" -> Wrote(index, "error", "Invalid JSON data")
             [] OTHER -> \A i \in 1..Len(r.json.val) :
                            \E e \in RowEntries(index) :
                               e[2] = r.json.val[i].name /\ e[3] = r.json.val[i].value
        /\ IF r.activity_record # None
           THEN \E e \in RowEntries(index) :
                   e[2] = "activity_record" /\ e[3] = Get(r.activity_record)
           ELSE Wrote(index, "write", "No activity recorded")
        /\ IF r.Date # None
           THEN Wrote(index, "write", "Date")
           ELSE Wrote(index, "write", "No date recorded")

\* the labels of the rows of the slice, in row order
SliceIndexes == [p \in 1..Len(farm_data) |-> farm_data[p].index]

\* the render pass has left display_farm_info
Displayed == pc \in {"bundle", "done"} /\ farm_data # <<>>

\* the requests issued for the image of the row labelled index
RequestsOf(index) == {k \in 1..Len(http) : http[k].index = index}

\* C3 as claimed: parsing the metadata of a record never raises to the
\* caller: absent or malformed metadata parses to null, the severity of the
\* record is then absent, and the pass goes on.
C3_AsClaimed ==
    /\ pc # "crashed"
    /\ pc \notin {"load", "clean"} =>
          \A i \in 1..Len(data) :
             data[i].json.kind \in {"nan", "bad"} =>
                 data[i].json_data = None /\ data[i].Severity = None

\* C4 as claimed: every record of the slice, also one whose image URL is
\* absent, has its farm name, metadata panel, activity note and activity
\* date written; an absent URL costs only a warning and the image fetch.
C4_AsClaimed ==
    Displayed =>
        \A p \in 1..Len(farm_data) :
           /\ FieldsEmitted(SliceIndexes[p])
           /\ farm_data[p].url = None =>
                 /\ Wrote(SliceIndexes[p], "warning", "Invalid image URL for entry")
                 /\ RequestsOf(SliceIndexes[p]) = {}

\* C5 as claimed: over the passes of one process the CSV is loaded from its
\* source at most once.
C5_AsClaimed == loads <= 1

\* the name the claims give to the image of the CSV row at 0-based position i
ExpectedFilename(i) ==
    LET r == csv[i + 1]
        digit(n, q) == 48 + ((n \div q) % 10)
        iso == <<digit(Get(r.Date).y, 1000), digit(Get(r.Date).y, 100),
                 digit(Get(r.Date).y, 10), digit(Get(r.Date).y, 1), 45,
                 digit(Get(r.Date).m, 10), digit(Get(r.Date).m, 1), 45,
                 digit(Get(r.Date).d, 10), digit(Get(r.Date).d, 1)>>
        number == IF i + 1 < 10 THEN <<48 + i + 1>>
                  ELSE <<48 + ((i + 1) \div 10), 48 + ((i + 1) % 10)>>
    IN  Get(r.farmName) \o <<95>>
        \o (IF r.Date # None THEN iso
            ELSE <<117, 110, 107, 110, 111, 119, 110, 95, 100, 97, 116, 101>>)
        \o <<95>> \o number \o <<46, 106, 112, 103>>

\* download_image fetched, decoded and re-encoded the image of the row
Fetched(index) ==
    \E k \in RequestsOf(index) : http[k].caller = "download_image" /\ http[k].result = "ok"

\* the fetch or the decoding of the image of the row failed
FetchFailed(index) ==
    \E k \in RequestsOf(index) :
       http[k].result \in {"RequestException", "UnidentifiedImageError"}

FetchedRows == {p \in 1..Len(farm_data) : Fetched(SliceIndexes[p])}

ArchiveOffered == Emit("sidebar_download_button", "Download All Images", <<>>) \in Members(out)

\* C6: the archive is offered exactly when at least one image of the slice
\* was fetched; it then holds one entry per fetched record, under the
\* record's file name, in row order, and nothing else.
C6_Archive ==
    /\ ArchiveOffered <=> zip # None
    /\ pc # "done" => zip = None
    /\ pc = "done" =>
          /\ ArchiveOffered <=> FetchedRows # {}
          /\ ArchiveOffered =>
                /\ Len(Get(zip)) = Cardinality(FetchedRows)
                /\ \A p \in FetchedRows :
                      LET k == Cardinality({q \in FetchedRows : q < p}) + 1
                      IN  /\ Get(zip)[k].name = ExpectedFilename(SliceIndexes[p])
                          /\ Get(zip)[k].content.row = SliceIndexes[p]

\* C6 witness: of two records with an image URL one was fetched and one
\* failed, and the archive offered holds the one entry.
C6_Witness ==
    /\ pc = "done"
    /\ Len(farm_data) = 2
    /\ FetchFailed(SliceIndexes[1])
    /\ Fetched(SliceIndexes[2])
    /\ ArchiveOffered
    /\ Len(Get(zip)) = 1

\* the row at position p of the slice has been rendered
RowDone(p) == p < pos \/ pc \in {"bundle", "done"}

\* C8: a failed fetch or decoding of a record's image is reported as an
\* error of that record, adds no DownloadUnit for it, leaves the record's
\* other fields written, and the pass goes on through every later record.
C8_FailureContained ==
    /\ http # <<>> => pc # "crashed"
    /\ pc \in {"row", "get", "download", "col2"} => pos \in 1..Len(farm_data)
    /\ \A p \in 1..Len(farm_data) :
          (FetchFailed(SliceIndexes[p]) /\ RowDone(p)) =>
              /\ \E e \in RowEntries(SliceIndexes[p]) : e[1] = "error"
              /\ \A k \in 1..Len(images_to_download) :
                    images_to_download[k][1].row # SliceIndexes[p]
              /\ FieldsEmitted(SliceIndexes[p])
    /\ Displayed =>
          \A p \in 1..Len(farm_data) :
             \/ FieldsEmitted(SliceIndexes[p])
             \/ Wrote(SliceIndexes[p], "warning", "Invalid image URL for entry")

\* C8 witness: the image of the first record failed, and the pass ended
\* with the image of the second record downloaded.
C8_Witness ==
    /\ pc = "done"
    /\ Len(farm_data) = 2
    /\ FetchFailed(SliceIndexes[1])
    /\ FieldsEmitted(SliceIndexes[1])
    /\ Len(images_to_download) = 1
    /\ images_to_download[1][1].row = SliceIndexes[2]

\* C9: the file name of a record is F_<YYYY-MM-DD>_<i+1>.jpg, or
\* F_unknown_date_<i+1>.jpg without a date, with F the farm name and i the
\* record's 0-based position in the CSV, not in the slice; so no two
\* DownloadUnits of a pass share a file name.
C9_Filename ==
    /\ img_name # None => img_name = Some(ExpectedFilename(SliceIndexes[pos]))
    /\ \A k \in 1..Len(images_to_download) :
          /\ images_to_download[k][2] = ExpectedFilename(images_to_download[k][1].row)
          /\ \A j \in 1..Len(images_to_download) :
                j # k => images_to_download[j][2] # images_to_download[k][2]

\* C9 witness: the first record of the slice is not the first row of the
\* CSV, has a date, and its DownloadUnit carries the CSV position.
C9_Witness ==
    /\ Len(images_to_download) >= 1
    /\ SliceIndexes[1] >= 1
    /\ images_to_download[1][1].row = SliceIndexes[1]
    /\ csv[SliceIndexes[1] + 1].Date # None
    /\ images_to_download[1][2] = ExpectedFilename(SliceIndexes[1])

Pending == {k \in 1..Len(http) : http[k].result = "pending"}

\* the requests are issued one at a time, in row order
Sequential ==
    /\ Cardinality(Pending) <= 1
    /\ Pending # {} => Pending = {Len(http)}
    /\ \A a, b \in 1..Len(http) :
          a < b =>
             \E pa, pb \in 1..Len(farm_data) :
                pa <= pb /\ SliceIndexes[pa] = http[a].index /\ SliceIndexes[pb] = http[b].index

\* C10 as claimed: the fetches are sequential, in row order, never two in
\* flight, and a record with an image URL causes exactly one fetch, a
\* record without one none.
C10_AsClaimed ==
    /\ Sequential
    /\ Displayed =>
          \A p \in 1..Len(farm_data) :
             Cardinality(RequestsOf(SliceIndexes[p])) =
                IF farm_data[p].url = None THEN 0 ELSE 1

\* C10 amended: the fetches are sequential, in row order, never two in
\* flight; a record without an image URL causes none, a record with one
\* causes the fetch of display_farm_info and, when that one succeeds, a
\* second fetch of the same URL by download_image.
C10_Fetches ==
    /\ Sequential
    /\ Displayed =>
          \A p \in 1..Len(farm_data) :
             LET reqs == RequestsOf(SliceIndexes[p])
             IN  IF farm_data[p].url = None THEN reqs = {}
                 ELSE /\ reqs # {}
                      /\ http[Min(reqs)].caller = "display_farm_info"
                      /\ IF http[Min(reqs)].result = "ok"
                         THEN /\ Cardinality(reqs) = 2
                              /\ \E k \in reqs : http[k].caller = "download_image"
                         ELSE Cardinality(reqs) = 1

\* C10 witness: a pass over two records ended with two fetches for the
\* first, whose first fetch succeeded, and one for the second, which failed.
C10_Witness ==
    /\ pc = "done"
    /\ Len(farm_data) = 2
    /\ Cardinality(RequestsOf(SliceIndexes[1])) = 2
    /\ Cardinality(RequestsOf(SliceIndexes[2])) = 1

====
